---- MODULE Spec2Model ----
(***************************************************************************)
(* Model of the retrieval core of the imaging RAG demo:                    *)
(*   app/vectorstore.py  cosine_similarity, SimpleVectorStore              *)
(*   app/rag.py          chunk_text, RAGPipeline                           *)
(*   app/main.py         ingest, chat                                      *)
(* Strings are sequences of one-character strings; " " is whitespace.      *)
(* Embedding components are integers and scores are compared exactly.      *)
(***************************************************************************)
EXTENDS Integers, Sequences, FiniteSets, TLC

VARIABLES
    \* SimpleVectorStore.search: the store, the arguments, the returned list
    searchItems, searchQ, searchK, searchOut, searchPc,
    \* chunk_text: arguments, loop variables, the [start, end) of each iteration
    text, chunk_size, overlap, start, chunks, windows, chunkPc,
    \* the store file, shared by the pipelines
    indexFile,
    \* SimpleVectorStore: a store that adds and saves, a fresh one that loads
    storeItems, freshItems, storeLast,
    \* the data files; per request: its position, the request, the store of
    \* its pipeline, the ingest_records call in progress, the embeddings so
    \* far, how it ended; the identifiers handed out
    dataFiles, pc, req, memItems, call, embeds, outcome, nextId,
    \* history: the store as loaded, the requests that saved (in order), the
    \* number of saves and the file at load, the request that stepped last
    base, saveLog, loadedAt, fileSeen, last,
    \* chat: the session's history, the arguments of the last build_prompt
    \* call, the prompt it returned
    sessionHistory, promptArgs, messages, promptPc

searchVars == <<searchItems, searchQ, searchK, searchOut, searchPc>>
chunkVars == <<text, chunk_size, overlap, start, chunks, windows, chunkPc>>
storeVars == <<storeItems, freshItems, storeLast>>
ingestVars == <<dataFiles, pc, req, memItems, call, embeds, outcome, nextId,
                base, saveLog, loadedAt, fileSeen, last>>
promptVars == <<sessionHistory, promptArgs, messages, promptPc>>
vars == <<searchVars, chunkVars, indexFile, storeVars, ingestVars, promptVars>>

(***************************************************************************)
(* Bounds                                                                  *)
(***************************************************************************)
MaxItems == 3
MaxK == 3
MaxLen == 4
MaxChunkSize == 3
MaxOverlap == 3
\* iterations of the chunk_text loop the model follows before it stops looking
MaxIter == MaxLen + 2
MaxStoreItems == 2
\* chunk_text's defaults (800, 120) and embed_texts' batch size (64), scaled
\* down to the short texts of the model
ModelChunkSize == 2
ModelOverlap == 1
ModelBatchSize == 2
MaxInitHistory == 5
MaxTurns == 2

(***************************************************************************)
(* Helpers                                                                 *)
(***************************************************************************)
Min(a, b) == IF a < b THEN a ELSE b
Max(a, b) == IF a > b THEN a ELSE b

RECURSIVE SumSeq(_)
SumSeq(s) == IF s = <<>> THEN 0 ELSE Head(s) + SumSeq(Tail(s))

\* Python slice s[lo:hi] for 0 <= lo, 0 <= hi (0-based, hi exclusive, clipped)
Slice(s, lo, hi) == SubSeq(s, lo + 1, Min(hi, Len(s)))

(***************************************************************************)
(* vectorstore.py: cosine_similarity                                       *)
(***************************************************************************)
\* sum(x * y for x, y in zip(a, b)): zip stops at the shorter list
Dot(a, b) == SumSeq([i \in 1..Min(Len(a), Len(b)) |-> a[i] * b[i]])

\* sum(x * x for x in a), the square of the norm
NormSq(a) == SumSeq([i \in 1..Len(a) |-> a[i] * a[i]])

\* dot / (na * nb) kept exact as the fraction num / den of its signed square,
\* sgn(dot) * dot^2 / (|a|^2 * |b|^2), which orders scores as the quotient
\* does.  A zero norm is replaced by 1e-8 in the code; the dot product is 0
\* then, so the score is 0 whatever positive denominator stands in.
cosine_similarity(a, b) ==
    LET dot == Dot(a, b)
        na2 == IF NormSq(a) = 0 THEN 1 ELSE NormSq(a)
        nb2 == IF NormSq(b) = 0 THEN 1 ELSE NormSq(b)
    IN  [num |-> IF dot < 0 THEN -(dot * dot) ELSE dot * dot, den |-> na2 * nb2]

\* the float 0.0
ZeroScore == [num |-> 0, den |-> 1]

ScoreLess(s, t) == s.num * t.den < t.num * s.den
ScoreEq(s, t) == s.num * t.den = t.num * s.den

(***************************************************************************)
(* vectorstore.py: SimpleVectorStore.search                                *)
(***************************************************************************)
\* item.get("embedding") is falsy for a missing key (None) and for []
ScoreOf(q, item) ==
    IF item.hasEmbedding /\ item.embedding # <<>>
    THEN cosine_similarity(q, item.embedding)
    ELSE ZeroScore

\* the same sort without reverse=True
RECURSIVE InsertAsc(_, _)
InsertAsc(sorted, x) ==
    IF sorted = <<>> THEN <<x>>
    ELSE IF ScoreLess(x.score, Head(sorted).score) THEN <<x>> \o sorted
    ELSE <<Head(sorted)>> \o InsertAsc(Tail(sorted), x)

RECURSIVE SortAsc(_)
SortAsc(s) ==
    IF s = <<>> THEN <<>>
    ELSE InsertAsc(SortAsc(SubSeq(s, 1, Len(s) - 1)), s[Len(s)])

\* list.sort(key=score, reverse=True) is stable: an element goes behind every
\* earlier element whose score is not smaller
RECURSIVE InsertDesc(_, _)
InsertDesc(sorted, x) ==
    IF sorted = <<>> THEN <<x>>
    ELSE IF ScoreLess(Head(sorted).score, x.score) THEN <<x>> \o sorted
    ELSE <<Head(sorted)>> \o InsertDesc(Tail(sorted), x)

RECURSIVE SortDesc(_)
SortDesc(s) ==
    IF s = <<>> THEN <<>>
    ELSE InsertDesc(SortDesc(SubSeq(s, 1, Len(s) - 1)), s[Len(s)])

\* scored[:k]; a negative k drops the last -k entries
Prefix(s, k) == IF k >= 0 THEN SubSeq(s, 1, Min(k, Len(s)))
                ELSE SubSeq(s, 1, Max(Len(s) + k, 0))

search(items, q, k) ==
    LET scored == [i \in 1..Len(items) |->
                      [score |-> ScoreOf(q, items[i]), item |-> items[i]]]
        top == Prefix(SortDesc(scored), k)
    IN  [i \in 1..Len(top) |-> top[i].item]

\* embeddings a stored item may carry: none at all, empty, the zero vector,
\* parallel vectors of different length, opposite and orthogonal ones, and a
\* vector shorter than the query
Embeddings == { <<>>, <<0, 0>>, <<1, 0>>, <<2, 0>>, <<0, 1>>, <<1, 1>>,
                <<-1, 0>>, <<1>> }
Queries == { <<1, 0>>, <<0, 1>>, <<1, 1>>, <<0, 0>>, <<-1, 1>> }

ItemKinds == [hasEmbedding : {TRUE}, embedding : Embeddings]
                 \cup {[hasEmbedding |-> FALSE, embedding |-> <<>>]}

\* the store after n add calls: item i is the i-th one added
StoresOfLen(n) ==
    { [i \in 1..n |-> [id |-> i, hasEmbedding |-> f[i].hasEmbedding,
                       embedding |-> f[i].embedding]] : f \in [1..n -> ItemKinds] }

SearchIdle ==
    /\ searchItems = <<>> /\ searchQ = <<>> /\ searchK = 0
    /\ searchOut = <<>> /\ searchPc = "idle"

InitSearchVars ==
    /\ \E n \in 0..MaxItems : searchItems \in StoresOfLen(n)
    /\ searchQ \in Queries
    /\ searchK \in -1..MaxK
    /\ searchOut = <<>>
    /\ searchPc = "start"

Search ==
    /\ searchPc = "start"
    /\ searchOut' = search(searchItems, searchQ, searchK)
    /\ searchPc' = "searched"
    /\ UNCHANGED <<searchItems, searchQ, searchK>>

(***************************************************************************)
(* vectorstore.py: json.dumps / json.loads of the item list                *)
(* The file is a sequence of tokens: the structural characters, the        *)
(* characters of each string between quotes (a quote or backslash inside   *)
(* a string escaped with a backslash), and one token per number.           *)
(***************************************************************************)
Quote == "\""
Backslash == "\\"

NumTokTable == <<"-2", "-1", "0", "1", "2">>
Numbers == -2..2
NumTok(n) == NumTokTable[n + 3]
NumVal(t) == CHOOSE n \in Numbers : NumTok(n) = t

RECURSIVE Escape(_)
Escape(s) ==
    IF s = <<>> THEN <<>>
    ELSE (IF Head(s) \in {Quote, Backslash} THEN <<Backslash, Head(s)>>
          ELSE <<Head(s)>>) \o Escape(Tail(s))

DumpStr(s) == <<Quote>> \o Escape(s) \o <<Quote>>

\* the numbers written without their sign
RECURSIVE DumpNumsUnsigned(_)
DumpNumsUnsigned(v) ==
    IF v = <<>> THEN <<>>
    ELSE <<NumTok(IF Head(v) < 0 THEN -Head(v) ELSE Head(v))>>
             \o (IF Len(v) > 1 THEN <<",">> ELSE <<>>)
             \o DumpNumsUnsigned(Tail(v))

RECURSIVE DumpNums(_)
DumpNums(v) ==
    IF v = <<>> THEN <<>>
    ELSE <<NumTok(Head(v))>> \o (IF Len(v) > 1 THEN <<",">> ELSE <<>>)
             \o DumpNums(Tail(v))

DumpKey(k) == <<Quote, k, Quote, ":">>

\* the dict add() builds, keys in insertion order
DumpItem(it) ==
    <<"{">> \o DumpKey("id") \o DumpStr(it.id) \o <<",">>
            \o DumpKey("text") \o DumpStr(it.text) \o <<",">>
            \o DumpKey("source") \o DumpStr(it.source) \o <<",">>
            \o DumpKey("embedding") \o <<"[">> \o DumpNums(it.embedding) \o <<"]">>
            \o <<"}">>

RECURSIVE DumpItems(_)
DumpItems(items) ==
    IF items = <<>> THEN <<>>
    ELSE DumpItem(Head(items)) \o (IF Len(items) > 1 THEN <<",">> ELSE <<>>)
             \o DumpItems(Tail(items))

\* json.dumps(self.items, ensure_ascii=False, indent=2), whitespace left out
dumps(items) == <<"[">> \o DumpItems(items) \o <<"]">>

\* the parsers return [val |-> what was read, rest |-> the tokens after it]
\* the characters of a string, toks starting behind the opening quote
RECURSIVE ParseStrBody(_, _)
ParseStrBody(toks, acc) ==
    IF Head(toks) = Quote THEN [val |-> acc, rest |-> Tail(toks)]
    ELSE IF Head(toks) = Backslash
         THEN ParseStrBody(Tail(Tail(toks)), Append(acc, toks[2]))
         ELSE ParseStrBody(Tail(toks), Append(acc, Head(toks)))

ParseStr(toks) == ParseStrBody(Tail(toks), <<>>)

\* the numbers of an array, toks starting behind the opening bracket
RECURSIVE ParseNums(_, _)
ParseNums(toks, acc) ==
    IF Head(toks) = "]" THEN [val |-> acc, rest |-> Tail(toks)]
    ELSE IF Head(toks) = "," THEN ParseNums(Tail(toks), acc)
    ELSE ParseNums(Tail(toks), Append(acc, NumVal(Head(toks))))

\* "key" : value pairs up to the closing brace, toks behind the opening brace;
\* a string value for id, text and source, an array for embedding
RECURSIVE ParseMembers(_, _)
ParseMembers(toks, acc) ==
    IF Head(toks) = "}" THEN [val |-> acc, rest |-> Tail(toks)]
    ELSE IF Head(toks) = "," THEN ParseMembers(Tail(toks), acc)
    ELSE LET key == toks[2]
             body == SubSeq(toks, 5, Len(toks))
             v == IF Head(body) = "[" THEN ParseNums(Tail(body), <<>>)
                  ELSE ParseStr(body)
         IN  ParseMembers(v.rest, [acc EXCEPT ![key] = v.val])

ParseItem(toks) ==
    ParseMembers(Tail(toks),
                 [id |-> <<>>, text |-> <<>>, source |-> <<>>, embedding |-> <<>>])

RECURSIVE ParseItems(_, _)
ParseItems(toks, acc) ==
    IF Head(toks) = "]" THEN acc
    ELSE IF Head(toks) = "," THEN ParseItems(Tail(toks), acc)
    ELSE LET it == ParseItem(toks)
         IN  ParseItems(it.rest, Append(acc, it.val))

\* json.loads(text)
loads(toks) == ParseItems(Tail(toks), <<>>)

(***************************************************************************)
(* vectorstore.py: SimpleVectorStore load / save / add                     *)
(***************************************************************************)
NoFile == [exists |-> FALSE, content |-> <<>>]

\* load(): the parsed file, or [] when the file does not exist
load(file) == IF file.exists THEN loads(file.content) ELSE <<>>

\* save(): the file rewritten with the whole collection
save(items) == [exists |-> TRUE, content |-> dumps(items)]

\* add(): one dict appended
add(items, doc_id, txt, source, embedding) ==
    Append(items, [id |-> doc_id, text |-> txt, source |-> source,
                   embedding |-> embedding])

StoreIds == { <<"1">>, <<"2">> }
StoreTexts == { <<>>, <<"a">>, <<Quote>>, <<"a", Backslash>>, <<Backslash, Quote>> }
StoreSources == { <<"s">> }
StoreEmbeddings == { <<>>, <<1>>, <<-1, 2>> }

StoreIdle ==
    /\ storeItems = <<>> /\ freshItems = <<>> /\ storeLast = "idle"

InitStoreVars ==
    /\ storeItems = <<>> /\ freshItems = <<>> /\ storeLast = "new"

\* store.add(...) on the writing store
StoreAdd ==
    /\ Len(storeItems) < MaxStoreItems
    /\ \E i \in StoreIds, t \in StoreTexts, s \in StoreSources, e \in StoreEmbeddings :
          storeItems' = add(storeItems, i, t, s, e)
    /\ storeLast' = "add"
    /\ UNCHANGED <<freshItems, indexFile>>

\* store.save() on the writing store
StoreSave ==
    /\ indexFile' = save(storeItems)
    /\ storeLast' = "save"
    /\ UNCHANGED <<storeItems, freshItems>>

\* SimpleVectorStore(path).load() on a fresh store; storeLast records whether
\* the load came behind a save with no add in between
StoreLoad ==
    /\ freshItems' = load(indexFile)
    /\ storeLast' = IF storeLast \in {"save", "load_saved"} THEN "load_saved"
                    ELSE "load"
    /\ UNCHANGED <<storeItems, indexFile>>

(***************************************************************************)
(* rag.py: chunk_text                                                      *)
(***************************************************************************)
IsSpace(c) == c = " "

\* str.strip(): drop leading and trailing whitespace
RECURSIVE LStrip(_)
LStrip(s) == IF s # <<>> /\ IsSpace(Head(s)) THEN LStrip(Tail(s)) ELSE s

RECURSIVE RStrip(_)
RStrip(s) == IF s # <<>> /\ IsSpace(s[Len(s)])
             THEN RStrip(SubSeq(s, 1, Len(s) - 1)) ELSE s

Strip(s) == RStrip(LStrip(s))

\* the loop body with start left where it is
ChunkIterNoAdvance(t, size, ovl, st) ==
    LET n == Len(t)
        end == Min(st.start + size, n)
        chunk == Strip(Slice(t, st.start, end))
    IN  [start |-> st.start,
         chunks |-> IF chunk # <<>> THEN Append(st.chunks, chunk) ELSE st.chunks,
         windows |-> Append(st.windows, <<st.start, end>>),
         done |-> end = n]

\* the loop body with the next start one character late
ChunkIterOffByOne(t, size, ovl, st) ==
    LET n == Len(t)
        end == Min(st.start + size, n)
        chunk == Strip(Slice(t, st.start, end))
    IN  [start |-> IF end = n THEN st.start ELSE Max(end - ovl + 1, 0),
         chunks |-> IF chunk # <<>> THEN Append(st.chunks, chunk) ELSE st.chunks,
         windows |-> Append(st.windows, <<st.start, end>>),
         done |-> end = n]

\* One pass of the while body, from a state with st.start < len(text).
\* st = [start, chunks, windows, done]; windows records each (start, end).
ChunkIter(t, size, ovl, st) ==
    LET n == Len(t)
        end == Min(st.start + size, n)
        chunk == Strip(Slice(t, st.start, end))
    IN  [start |-> IF end = n THEN st.start ELSE Max(end - ovl, 0),
         chunks |-> IF chunk # <<>> THEN Append(st.chunks, chunk) ELSE st.chunks,
         windows |-> Append(st.windows, <<st.start, end>>),
         done |-> end = n]

Chars == {"a", "b", " "}

TextsOfLen(n) == [1..n -> Chars]

ChunkIdle ==
    /\ text = <<>> /\ chunk_size = 1 /\ overlap = 0
    /\ start = 0 /\ chunks = <<>> /\ windows = <<>> /\ chunkPc = "idle"

InitChunkVars ==
    /\ \E n \in 0..MaxLen : text \in TextsOfLen(n)
    /\ chunk_size \in 0..MaxChunkSize
    /\ overlap \in 0..MaxOverlap
    /\ start = 0
    /\ chunks = <<>>
    /\ windows = <<>>
    /\ chunkPc = "loop"

\* while start < n: ... (one iteration)
ChunkLoop ==
    /\ chunkPc = "loop"
    /\ start < Len(text)
    /\ Len(windows) < MaxIter
    /\ LET st == ChunkIter(text, chunk_size, overlap,
                           [start |-> start, chunks |-> chunks,
                            windows |-> windows, done |-> FALSE])
       IN  /\ start' = st.start
           /\ chunks' = st.chunks
           /\ windows' = st.windows
           /\ chunkPc' = IF st.done THEN "done" ELSE "loop"
    /\ UNCHANGED <<text, chunk_size, overlap>>

\* the loop condition fails: return chunks
ChunkExit ==
    /\ chunkPc = "loop"
    /\ ~(start < Len(text))
    /\ chunkPc' = "done"
    /\ UNCHANGED <<text, chunk_size, overlap, start, chunks, windows>>

(***************************************************************************)
(* rag.py: RAGPipeline.ingest_records, embed_texts, ensure_index_built     *)
(* main.py: ingest                                                         *)
(***************************************************************************)
Procs == {1, 2}

SampleName == "sample_imaging.jsonl"
ExtraName == "extra.jsonl"
DataNames == {SampleName, ExtraName}

\* the value of a record's field: absent (get gives None), a non-zero number,
\* or a string
NoneV == [type |-> "none", s |-> <<>>]
NumV == [type |-> "number", s |-> <<>>]
StrV(s) == [type |-> "str", s |-> s]

Truthy(v) == v.type = "number" \/ (v.type = "str" /\ v.s # <<>>)

\* the text field alone
ExtractTextNoFallback(rec) == IF Truthy(rec.text) THEN rec.text ELSE StrV(<<>>)

\* rec.get("text") or rec.get("description") or ""
ExtractText(rec) ==
    IF Truthy(rec.text) THEN rec.text
    ELSE IF Truthy(rec.description) THEN rec.description
    ELSE StrV(<<>>)

\* not (not isinstance(text, str) or not text.strip())
Usable(v) == v.type = "str" /\ Strip(v.s) # <<>>

\* chunk_text as a function: the loop run to its end
RECURSIVE ChunkRun(_, _, _, _)
ChunkRun(t, size, ovl, st) ==
    IF st.done \/ ~(st.start < Len(t)) THEN st.chunks
    ELSE ChunkRun(t, size, ovl, ChunkIter(t, size, ovl, st))

chunk_text(t, size, ovl) ==
    ChunkRun(t, size, ovl,
             [start |-> 0, chunks |-> <<>>, windows |-> <<>>, done |-> FALSE])

\* the first loop of ingest_records: the chunks of every record with usable text
RECURSIVE FlattenChunks(_)
FlattenChunks(records) ==
    IF records = <<>> THEN <<>>
    ELSE LET t == ExtractText(Head(records))
         IN  (IF Usable(t) THEN chunk_text(t.s, ModelChunkSize, ModelOverlap)
              ELSE <<>>) \o FlattenChunks(Tail(records))

Digits == <<"0", "1", "2", "3", "4", "5", "6", "7", "8", "9">>

RECURSIVE ToStr(_)
ToStr(n) == IF n < 10 THEN <<Digits[n + 1]>>
            ELSE ToStr(n \div 10) \o <<Digits[(n % 10) + 1]>>

\* str(uuid.uuid4()): the from-th, from+1-th, ... fresh identifier
NewIds(from, n) == [i \in 1..n |-> <<"u">> \o ToStr(from + i - 1)]

\* texts[i:i + batch_size]
Batch(texts, i) == Slice(texts, i, i + ModelBatchSize)

\* every batch added to the store as it comes back
ItemsOnBatchEager(items, ids, chs, embs, source) ==
    items \o [i \in 1..Len(embs) |->
                 [id |-> ids[i], text |-> chs[i], source |-> source,
                  embedding |-> embs[i]]]

\* embed_texts only collects the embeddings of a batch: the store is not
\* touched before every batch has come back
ItemsOnBatch(items, ids, chs, embs, source) == items

\* the zip loop stopping one short
AddAllButLast(items, ids, chs, embs, source) ==
    items \o [i \in 1..(Len(ids) - 1) |->
                 [id |-> ids[i], text |-> chs[i], source |-> source,
                  embedding |-> embs[i]]]

\* for doc_id, ch, emb in zip(ids, chunks, embeds): self.store.add(...)
RECURSIVE AddAll(_, _, _, _, _)
AddAll(items, ids, chs, embs, source) ==
    IF ids = <<>> \/ chs = <<>> \/ embs = <<>> THEN items
    ELSE AddAll(add(items, Head(ids), Head(chs), source, Head(embs)),
                Tail(ids), Tail(chs), Tail(embs), source)

\* a line of a jsonl file: blank, not JSON, a JSON object, or another JSON
\* value (a number, a string, a list, null); rec is what json.loads returns
NotADict == [isdict |-> FALSE, text |-> NoneV, description |-> NoneV]
BlankLine == [json |-> "blank", rec |-> NotADict]
BadLine == [json |-> "malformed", rec |-> NotADict]
ScalarLine == [json |-> "scalar", rec |-> NotADict]
ObjLine(t, d) ==
    [json |-> "object", rec |-> [isdict |-> TRUE, text |-> t, description |-> d]]

\* main.py: every non-blank line goes through json.loads, which raises on a
\* malformed one
HasMalformed(lines) == \E i \in 1..Len(lines) : lines[i].json = "malformed"

\* the records in front of the first malformed line
RECURSIVE ParseLinesStopAtBad(_)
ParseLinesStopAtBad(lines) ==
    IF lines = <<>> \/ Head(lines).json = "malformed" THEN <<>>
    ELSE (IF Head(lines).json \in {"object", "scalar"} THEN <<Head(lines).rec>>
          ELSE <<>>)
             \o ParseLinesStopAtBad(Tail(lines))

\* what json.loads returns for the lines it accepts: blank lines are passed
\* over, and so are, in ensure_index_built, the lines json.loads rejects
RECURSIVE ParseLines(_)
ParseLines(lines) ==
    IF lines = <<>> THEN <<>>
    ELSE (IF Head(lines).json \in {"object", "scalar"} THEN <<Head(lines).rec>>
          ELSE <<>>)
             \o ParseLines(Tail(lines))

\* the data files the requests may find
DS_Good == << ObjLine(StrV(<<"a", "b", "c">>), NoneV),
              ObjLine(NoneV, StrV(<<"a", "b">>)) >>
DS_Dirty == << BadLine, ObjLine(StrV(<<"a", " ", "b">>), StrV(<<"c">>)) >>
DS_NoText == << BlankLine, ObjLine(StrV(<<" ">>), StrV(<<"a", "b">>)),
                ObjLine(NumV, StrV(<<"a">>)), ObjLine(StrV(<<>>), NoneV) >>
DS_Junk == << BadLine, BlankLine >>
DS_Scalar == << ObjLine(StrV(<<"a">>), NoneV), ScalarLine >>
Datasets == { DS_Good, DS_Dirty, DS_NoText, DS_Junk, DS_Scalar }

MissingFile == [exists |-> FALSE, lines |-> <<>>]
DataFile(ds) == [exists |-> TRUE, lines |-> ds]

\* embeddings the API may return for a text
Vecs == { <<1, 0>>, <<0, 1>> }

\* the index left by an earlier ingestion
SeedItems == << [id |-> <<"u", "0">>, text |-> <<"z">>, source |-> <<ExtraName>>,
                 embedding |-> <<1, 1>>] >>

Requests == { [kind |-> "ingest", jsonl_name |-> ""],
              [kind |-> "ingest", jsonl_name |-> ExtraName],
              [kind |-> "chat", jsonl_name |-> ""] }

NoOutcome == [kind |-> "none", value |-> 0]
Returned(n) == [kind |-> "return", value |-> n]
Raised(what, n) == [kind |-> what, value |-> n]

NoCall == [called |-> FALSE, records |-> <<>>, source |-> <<>>,
           ids |-> <<>>, chunks |-> <<>>]

IngestIdle ==
    /\ dataFiles = [n \in DataNames |-> MissingFile]
    /\ pc = [p \in Procs |-> "off"]
    /\ req = [p \in Procs |-> [kind |-> "none", jsonl_name |-> ""]]
    /\ memItems = [p \in Procs |-> <<>>]
    /\ base = [p \in Procs |-> <<>>]
    /\ call = [p \in Procs |-> NoCall]
    /\ embeds = [p \in Procs |-> <<>>]
    /\ outcome = [p \in Procs |-> NoOutcome]
    /\ nextId = 1
    /\ saveLog = <<>>
    /\ loadedAt = [p \in Procs |-> 0]
    /\ fileSeen = [p \in Procs |-> NoFile]
    /\ last = 0

InitIngestVars ==
    /\ dataFiles \in [DataNames -> {MissingFile} \cup { DataFile(d) : d \in Datasets }]
    /\ pc = [p \in Procs |-> "idle"]
    /\ req = [p \in Procs |-> [kind |-> "none", jsonl_name |-> ""]]
    /\ memItems = [p \in Procs |-> <<>>]
    /\ base = [p \in Procs |-> <<>>]
    /\ call = [p \in Procs |-> NoCall]
    /\ embeds = [p \in Procs |-> <<>>]
    /\ outcome = [p \in Procs |-> NoOutcome]
    /\ nextId = 1
    /\ saveLog = <<>>
    /\ loadedAt = [p \in Procs |-> 0]
    /\ fileSeen = [p \in Procs |-> NoFile]
    /\ last = 0

\* the request ends without a call of ingest_records
EndRequest(p, out) ==
    /\ pc' = [pc EXCEPT ![p] = IF out.kind = "return" THEN "returned" ELSE "raised"]
    /\ outcome' = [outcome EXCEPT ![p] = out]
    /\ call' = [call EXCEPT ![p] = NoCall]
    /\ UNCHANGED nextId

\* ingest_records up to the call of embed_texts: flatten (rec.get raises
\* AttributeError on a record that is no dict), return 0 if no chunk, else
\* go on to embed
BeginIngestRecords(p, records, name) ==
    IF \E i \in 1..Len(records) : ~records[i].isdict
    THEN /\ call' = [call EXCEPT ![p] =
                        [called |-> TRUE, records |-> records, source |-> <<name>>,
                         ids |-> <<>>, chunks |-> <<>>]]
         /\ pc' = [pc EXCEPT ![p] = "raised"]
         /\ outcome' = [outcome EXCEPT ![p] = Raised("AttributeError", 0)]
         /\ UNCHANGED nextId
    ELSE LET chs == FlattenChunks(records)
             c == [called |-> TRUE, records |-> records, source |-> <<name>>,
                   ids |-> NewIds(nextId, Len(chs)), chunks |-> chs]
         IN  /\ call' = [call EXCEPT ![p] = c]
             /\ nextId' = nextId + Len(chs)
             /\ IF chs = <<>>
                THEN /\ pc' = [pc EXCEPT ![p] = "returned"]
                     /\ outcome' = [outcome EXCEPT ![p] = Returned(0)]
                ELSE /\ pc' = [pc EXCEPT ![p] = "embedding"]
                     /\ outcome' = outcome

\* what every request does first: make_pipeline() loads the store
StartRequest(p, r) ==
    /\ pc[p] = "idle"
    /\ req' = [req EXCEPT ![p] = r]
    /\ memItems' = [memItems EXCEPT ![p] = load(indexFile)]
    /\ base' = [base EXCEPT ![p] = load(indexFile)]
    /\ fileSeen' = [fileSeen EXCEPT ![p] = indexFile]
    /\ loadedAt' = [loadedAt EXCEPT ![p] = Len(saveLog)]
    /\ last' = p
    /\ UNCHANGED <<dataFiles, indexFile, embeds, saveLog>>

\* main.py ingest(): up to the embedding call inside ingest_records
IngestStart(p, r) ==
    /\ r.kind = "ingest"
    /\ StartRequest(p, r)
    /\ LET path == IF r.jsonl_name # "" THEN r.jsonl_name ELSE SampleName
       IN  IF r.jsonl_name # "" /\ ~dataFiles[path].exists
           THEN EndRequest(p, Raised("HTTPException", 404))
           ELSE IF ~dataFiles[path].exists
           THEN EndRequest(p, Raised("FileNotFoundError", 0))
           ELSE IF HasMalformed(dataFiles[path].lines)
           THEN EndRequest(p, Raised("JSONDecodeError", 0))
           ELSE BeginIngestRecords(p, ParseLines(dataFiles[path].lines), path)

\* ensure_index_built() on a pipeline just made: up to the embedding call
EnsureIndexStart(p, r) ==
    /\ r.kind = "chat"
    /\ StartRequest(p, r)
    /\ LET loaded == load(indexFile)
           records == ParseLines(dataFiles[SampleName].lines)
       IN  IF loaded # <<>> \/ ~dataFiles[SampleName].exists \/ records = <<>>
           THEN EndRequest(p, Returned(0))
           ELSE BeginIngestRecords(p, records, SampleName)

\* embed_texts: one batch comes back from the API
EmbedBatch(p) ==
    /\ pc[p] = "embedding"
    /\ Len(embeds[p]) < Len(call[p].chunks)
    /\ LET batch == Batch(call[p].chunks, Len(embeds[p]))
       IN  \E vs \in [1..Len(batch) -> Vecs] :
              /\ embeds' = [embeds EXCEPT ![p] = @ \o vs]
              /\ memItems' = [memItems EXCEPT ![p] =
                              ItemsOnBatch(@, SubSeq(call[p].ids, Len(embeds[p]) + 1,
                                                     Len(call[p].ids)),
                                           batch, vs, call[p].source)]
    /\ last' = p
    /\ UNCHANGED <<dataFiles, indexFile, pc, req, base, call, outcome, nextId,
                   saveLog, loadedAt, fileSeen>>

\* embed_texts: the API call of a batch raises
EmbedFail(p) ==
    /\ pc[p] = "embedding"
    /\ Len(embeds[p]) < Len(call[p].chunks)
    /\ pc' = [pc EXCEPT ![p] = "raised"]
    /\ outcome' = [outcome EXCEPT ![p] = Raised("APIError", 0)]
    /\ last' = p
    /\ UNCHANGED <<dataFiles, indexFile, req, memItems, base, call, embeds, nextId,
                   saveLog, loadedAt, fileSeen>>

\* ingest_records behind embed_texts: add every chunk, save, return the count
Commit(p) ==
    /\ pc[p] = "embedding"
    /\ Len(embeds[p]) = Len(call[p].chunks)
    /\ LET new == AddAll(memItems[p], call[p].ids, call[p].chunks, embeds[p],
                         call[p].source)
       IN  /\ memItems' = [memItems EXCEPT ![p] = new]
           /\ indexFile' = save(new)
    /\ saveLog' = Append(saveLog, p)
    /\ pc' = [pc EXCEPT ![p] = "returned"]
    /\ outcome' = [outcome EXCEPT ![p] = Returned(Len(call[p].chunks))]
    /\ last' = p
    /\ UNCHANGED <<dataFiles, req, base, call, embeds, nextId, loadedAt, fileSeen>>

(***************************************************************************)
(* rag.py: RAGPipeline.build_prompt; main.py: chat                         *)
(***************************************************************************)
\* the number of trailing history messages build_prompt looks at
HistoryWindow == 6

NoneContent == [type |-> "none", s |-> <<>>]
StrContent(s) == [type |-> "str", s |-> s]
Message(role, content) == [role |-> role, content |-> content]

SystemText == <<"You are a helpful assistant ...">>

\* "\n\n".join(f"[Source: {c['source']}]\n{c['text']}" for c in contexts)
RECURSIVE ContextBlock(_)
ContextBlock(contexts) ==
    IF contexts = <<>> THEN <<>>
    ELSE <<"[Source: ">> \o Head(contexts).source \o <<"]", "\n">>
             \o Head(contexts).text
             \o (IF Len(contexts) > 1 THEN <<"\n", "\n">> ELSE <<>>)
             \o ContextBlock(Tail(contexts))

\* f"Context:\n{context_block}\n\nQuestion: {query}\n"
UserText(query, contexts) ==
    <<"Context:", "\n">> \o ContextBlock(contexts)
        \o <<"\n", "\n", "Question: ">> \o query \o <<"\n">>

\* the whole history
LastTurnsAll(history) == history

\* history[-6:]
LastTurns(history) ==
    SubSeq(history, Max(1, Len(history) - HistoryWindow + 1), Len(history))

\* m.get("role") in ("user", "assistant") and isinstance(m.get("content"), str)
KeepTurn(m) == m.role \in {"user", "assistant"} /\ m.content.type = "str"

\* for m in history[-6:]: if ...: messages.append(...)
RECURSIVE AppendTurns(_, _)
AppendTurns(msgs, turns) ==
    IF turns = <<>> THEN msgs
    ELSE AppendTurns(IF KeepTurn(Head(turns))
                     THEN Append(msgs, Message(Head(turns).role, Head(turns).content))
                     ELSE msgs,
                     Tail(turns))

build_prompt(query, contexts, history) ==
    LET first == <<Message("system", StrContent(SystemText))>>
        mid == IF history # <<>> THEN AppendTurns(first, LastTurns(history)) ELSE first
    IN  Append(mid, Message("user", StrContent(UserText(query, contexts))))

\* what a session history may hold: the entries chat() appends (the answer
\* may be None) and entries of other roles
HistoryKinds == { Message("user", StrContent(<<"q">>)),
                  Message("assistant", StrContent(<<"r">>)),
                  Message("assistant", NoneContent),
                  Message("system", StrContent(<<"x">>)) }
PromptQueries == { <<"q">> }
PromptContexts == { <<>>,
                    << [text |-> <<"t">>, source |-> <<"s">>],
                       [text |-> <<"v">>, source |-> <<"s">>] >> }

PromptIdle ==
    /\ sessionHistory = <<>> /\ promptArgs = <<>> /\ messages = <<>>
    /\ promptPc = "off"

InitPromptVars ==
    /\ \E n \in 0..MaxInitHistory : sessionHistory \in [1..n -> HistoryKinds]
    /\ promptArgs = <<>>
    /\ messages = <<>>
    /\ promptPc = "idle"

\* chat(): the prompt is built from the session history, then the message
\* and the answer are appended to the history
Chat ==
    /\ Len(sessionHistory) < MaxInitHistory + 2 * MaxTurns
    /\ \E q \in PromptQueries, c \in PromptContexts,
          answer \in {StrContent(<<"r">>), NoneContent} :
          /\ promptArgs' = [query |-> q, contexts |-> c, history |-> sessionHistory]
          /\ messages' = build_prompt(q, c, sessionHistory)
          /\ sessionHistory' = sessionHistory
                 \o <<Message("user", StrContent(q)), Message("assistant", answer)>>
    /\ promptPc' = "built"

(***************************************************************************)
(* Claims about search                                                     *)
(***************************************************************************)
Range(s) == { s[i] : i \in 1..Len(s) }

\* the score the claim gives an item: 0.0 without an embedding, else the cosine
ClaimScore(q, item) ==
    IF ~item.hasEmbedding \/ item.embedding = <<>> THEN ZeroScore
    ELSE cosine_similarity(q, item.embedding)

\* x ranks before y: higher score, or equal score and added earlier
RanksBefore(q, x, y) ==
    \/ ScoreLess(ClaimScore(q, y), ClaimScore(q, x))
    \/ ScoreEq(ClaimScore(q, x), ClaimScore(q, y)) /\ x.id < y.id

\* C1: for k >= 0 search(q, k) returns exactly min(k, number of items) items
\* of the store, in descending score order with equal scores in insertion
\* order, every item left out ranking behind every item returned; an item
\* with a missing or empty embedding counts with score 0.0.
C1_SearchTopK ==
    (searchPc = "searched" /\ searchK >= 0) =>
        LET m == Len(searchOut) IN
        /\ m = Min(searchK, Len(searchItems))
        /\ \A i \in 1..m : searchOut[i] \in Range(searchItems)
        /\ \A i, j \in 1..m :
              i < j => RanksBefore(searchQ, searchOut[i], searchOut[j])
        /\ \A x \in Range(searchItems) :
              x \notin Range(searchOut) =>
                  \A i \in 1..m : RanksBefore(searchQ, searchOut[i], x)

\* a search that cut a store of 3 down to 2, returned two equal-scored items
\* and ranked an item without embedding above one with a negative cosine
C1_Witness ==
    /\ searchPc = "searched"
    /\ Len(searchItems) = 3 /\ searchK = 2 /\ Len(searchOut) = 2
    /\ ScoreEq(ClaimScore(searchQ, searchOut[1]), ClaimScore(searchQ, searchOut[2]))
    /\ ~searchOut[2].hasEmbedding
    /\ \E x \in Range(searchItems) :
          x \notin Range(searchOut) /\ ClaimScore(searchQ, x).num < 0

(***************************************************************************)
(* Claims about chunk_text                                                 *)
(***************************************************************************)
ValidChunkParams == 0 <= overlap /\ overlap < chunk_size

\* the chunks cs lie in t at increasing offsets, the first at the start of t,
\* the last ending at its end, no gap between neighbours, and every pair of
\* neighbours but the last sharing exactly ovl characters
ChunksCover(t, cs, ovl) ==
    IF t = <<>> THEN cs = <<>>
    ELSE /\ cs # <<>>
         /\ \E off \in [1..Len(cs) -> 0..Len(t)] :
               /\ off[1] = 0
               /\ off[Len(cs)] + Len(cs[Len(cs)]) = Len(t)
               /\ \A i \in 1..Len(cs) :
                     /\ off[i] + Len(cs[i]) <= Len(t)
                     /\ Slice(t, off[i], off[i] + Len(cs[i])) = cs[i]
               /\ \A i \in 1..(Len(cs) - 1) :
                     off[i] <= off[i + 1] /\ off[i + 1] <= off[i] + Len(cs[i])
               /\ \A i \in 1..(Len(cs) - 2) :
                     off[i] + Len(cs[i]) - off[i + 1] = ovl

\* C2 as stated: with 0 <= O < C the returned chunks cover the text end to
\* end, each of length <= C, consecutive chunks overlapping by exactly O
\* except possibly the last pair.
C2_ChunksCoverText ==
    (chunkPc = "done" /\ ValidChunkParams) =>
        /\ \A i \in 1..Len(chunks) : Len(chunks[i]) <= chunk_size
        /\ ChunksCover(text, chunks, overlap)

WindowText(w) == Slice(text, w[1], w[2])
NonSpaces(s) == Cardinality({ i \in 1..Len(s) : ~IsSpace(s[i]) })

\* C2 amended: with 0 <= O < C the windows [start, end) cut by the loop cover
\* the text end to end, each at most C long, every consecutive pair
\* overlapping by exactly O; the returned chunks are, in order, the windows
\* with leading and trailing whitespace removed, a window of whitespace
\* only giving no chunk; so each chunk has length <= C and holds every
\* non-whitespace character of its window.
C2_WindowsCoverText ==
    (chunkPc = "done" /\ ValidChunkParams) =>
        LET m == Len(windows)
            trimmed == [i \in 1..m |-> Strip(WindowText(windows[i]))]
        IN  /\ (text = <<>>) <=> (m = 0)
            /\ m > 0 => windows[1][1] = 0 /\ windows[m][2] = Len(text)
            /\ \A i \in 1..m :
                  /\ windows[i][1] < windows[i][2]
                  /\ windows[i][2] - windows[i][1] <= chunk_size
                  /\ NonSpaces(trimmed[i]) = NonSpaces(WindowText(windows[i]))
                  /\ trimmed[i] # <<>> =>
                        ~IsSpace(Head(trimmed[i])) /\ ~IsSpace(trimmed[i][Len(trimmed[i])])
            /\ \A i \in 1..(m - 1) : windows[i][2] - windows[i + 1][1] = overlap
            /\ chunks = SelectSeq(trimmed, LAMBDA c : c # <<>>)
            /\ \A i \in 1..Len(chunks) : Len(chunks[i]) <= chunk_size

\* three overlapping windows, one of them whitespace only, so fewer chunks
\* than windows
C2_Witness ==
    /\ chunkPc = "done" /\ ValidChunkParams /\ overlap >= 1
    /\ Len(windows) >= 3
    /\ Len(chunks) = 2 /\ Len(chunks) < Len(windows)

Stalls == overlap >= chunk_size /\ Len(text) > chunk_size

\* C6: chunk_text terminates whenever 0 <= overlap < chunk_size; it returns
\* no chunk for the empty text; with overlap >= chunk_size and a text longer
\* than chunk_size the start offset stays 0 and the loop is never left.
C6_TerminatesOrStalls ==
    /\ (ValidChunkParams ~> (chunkPc = "done"))
    /\ []((text = <<>> /\ chunkPc = "done") => chunks = <<>>)
    /\ [](Stalls => (chunkPc = "loop" /\ start = 0))

\* a stalled run: several iterations done and start is still 0
C6_Witness ==
    /\ Stalls /\ chunk_size >= 1
    /\ chunkPc = "loop" /\ start = 0
    /\ Len(windows) >= 3
    /\ \A i \in 1..Len(windows) : windows[i] = windows[1]

(***************************************************************************)
(* Claims about the store                                                  *)
(***************************************************************************)
\* C3: after save() the file parses to the in-memory items, and load() on a
\* fresh store behind a save() yields the saved collection: same length,
\* same order, same id, text, source and embedding for every item.
C3_SaveLoadRoundTrip ==
    /\ storeLast = "save" =>
          indexFile.exists /\ loads(indexFile.content) = storeItems
    /\ storeLast = "load_saved" =>
          /\ Len(freshItems) = Len(storeItems)
          /\ \A i \in 1..Len(storeItems) :
                /\ freshItems[i].id = storeItems[i].id
                /\ freshItems[i].text = storeItems[i].text
                /\ freshItems[i].source = storeItems[i].source
                /\ freshItems[i].embedding = storeItems[i].embedding

\* two items, one with a text that needs escaping, saved and loaded back
C3_Witness ==
    /\ storeLast = "load_saved"
    /\ Len(freshItems) = 2
    /\ freshItems[1].text = <<Backslash, Quote>>
    /\ freshItems[2].embedding = <<-1, 2>>

(***************************************************************************)
(* Claims about ingestion                                                  *)
(***************************************************************************)
Ended(p) == pc[p] \in {"returned", "raised"}

\* the items the request's pipeline holds beyond those it loaded
NewOf(p) == SubSeq(memItems[p], Len(base[p]) + 1, Len(memItems[p]))

IdsOf(its) == { its[i].id : i \in 1..Len(its) }

\* the file an ingest request is to read
Target(p) == IF req[p].jsonl_name # "" THEN req[p].jsonl_name ELSE SampleName

\* the text a record is ingested under: its text, or its description when
\* the text is absent or empty; valid when it is a string with a character
\* that is not whitespace
ClaimText(rec) ==
    IF rec.text.type = "none" \/ rec.text = StrV(<<>>) THEN rec.description
    ELSE rec.text

ClaimValid(v) == v.type = "str" /\ \E i \in 1..Len(v.s) : ~IsSpace(v.s[i])

RECURSIVE ClaimChunks(_)
ClaimChunks(records) ==
    IF records = <<>> THEN <<>>
    ELSE (IF ClaimValid(ClaimText(Head(records)))
          THEN chunk_text(ClaimText(Head(records)).s, ModelChunkSize, ModelOverlap)
          ELSE <<>>) \o ClaimChunks(Tail(records))

\* C4: when ingest_records returns n, the call appended exactly n items to
\* the store, one per chunk of every record with valid text, in record and
\* chunk order, each under a new id and the given source name, and the file
\* holds the whole in-memory collection; when no record has valid text it
\* returns 0 and leaves the collection and the file as they were.
C4_IngestReturnsCount ==
    \A p \in Procs :
        (last = p /\ pc[p] = "returned" /\ call[p].called) =>
            LET n == outcome[p].value
                new == NewOf(p)
                exp == ClaimChunks(call[p].records)
            IN  /\ outcome[p].kind = "return"
                /\ n = Len(exp)
                /\ Len(memItems[p]) = Len(base[p]) + n
                /\ SubSeq(memItems[p], 1, Len(base[p])) = base[p]
                /\ \A i \in 1..Len(new) :
                      /\ new[i].text = exp[i]
                      /\ new[i].source = call[p].source
                      /\ new[i].embedding = embeds[p][i]
                      /\ new[i].id \notin IdsOf(base[p])
                      /\ \A j \in 1..Len(new) : j # i => new[j].id # new[i].id
                /\ n > 0 => indexFile.exists /\ loads(indexFile.content) = memItems[p]
                /\ n = 0 => memItems[p] = base[p] /\ indexFile = fileSeen[p]

\* an ingestion of three chunks in two batches on top of a loaded index
C4_Witness ==
    \E p \in Procs :
        /\ last = p /\ pc[p] = "returned" /\ call[p].called
        /\ outcome[p].value = 3 /\ base[p] # <<>>
        /\ Len(memItems[p]) = 4

\* both requests loaded before any save, both saved (p first, q last) and
\* both reported chunks as added
Race(p, q) ==
    /\ p # q
    /\ loadedAt[p] = 0 /\ loadedAt[q] = 0
    /\ saveLog = <<p, q>>
    /\ outcome[p].kind = "return" /\ outcome[q].kind = "return"

\* C5: when two requests load the same file contents before either saves,
\* then after both have saved the file holds what was loaded plus the last
\* saver's additions only; every chunk of the first saver is gone from the
\* file although that request reported them as added.
C5_LostUpdate ==
    \A p, q \in Procs :
        Race(p, q) =>
            /\ fileSeen[p] = fileSeen[q]
            /\ outcome[p].value > 0 /\ outcome[p].value = Len(NewOf(p))
            /\ loads(indexFile.content) = base[q] \o NewOf(q)
            /\ Len(loads(indexFile.content)) = Len(load(fileSeen[q])) + outcome[q].value
            /\ IdsOf(NewOf(p)) \cap IdsOf(loads(indexFile.content)) = {}

\* the race, on an index that already held an item
C5_Witness ==
    \E p, q \in Procs :
        /\ Race(p, q)
        /\ base[p] # <<>>
        /\ outcome[p].value = 3 /\ outcome[q].value = 3

\* C10: when the embedding call of any batch fails the failure reaches the
\* caller, nothing of that call has been added to the in-memory collection
\* and the call has not written the file.
C10_EmbedFailureAllOrNothing ==
    \A p \in Procs :
        outcome[p].kind = "APIError" =>
            /\ pc[p] = "raised"
            /\ memItems[p] = base[p]
            /\ \A i \in 1..Len(saveLog) : saveLog[i] # p
            /\ (last = p /\ loadedAt[p] = Len(saveLog)) => indexFile = fileSeen[p]

\* a failure in the second batch, the first one having succeeded
C10_Witness ==
    \E p \in Procs :
        /\ outcome[p].kind = "APIError"
        /\ Len(embeds[p]) = ModelBatchSize
        /\ Len(call[p].chunks) > ModelBatchSize
        /\ base[p] # <<>>

\* C8 as stated: an ingest request whose file does not exist, named or
\* default, ends in the "not found" error (HTTP 404), store and file untouched.
C8_MissingFileIsNotFound ==
    \A p \in Procs :
        (req[p].kind = "ingest" /\ Ended(p) /\ ~dataFiles[Target(p)].exists) =>
            /\ outcome[p] = Raised("HTTPException", 404)
            /\ memItems[p] = base[p]
            /\ \A i \in 1..Len(saveLog) : saveLog[i] # p

\* ensure_index_built ended on a pipeline whose store was empty
BootstrapOnEmpty(p) == req[p].kind = "chat" /\ Ended(p) /\ base[p] = <<>>

\* the values of the well-formed lines of the sample file
SampleRecords ==
    LET ok == SelectSeq(dataFiles[SampleName].lines,
                        LAMBDA l : l.json \notin {"blank", "malformed"})
    IN  [i \in 1..Len(ok) |-> ok[i].rec]

AllObjects(records) == \A i \in 1..Len(records) : records[i].isdict

\* C7 as stated: on an empty store, with the sample file present the store
\* ends with more than 0 items and nothing is raised; with the file absent
\* the store stays empty and nothing is raised.
C7_BootstrapPopulates ==
    \A p \in Procs :
        BootstrapOnEmpty(p) =>
            /\ outcome[p].kind = "return"
            /\ dataFiles[SampleName].exists => Len(memItems[p]) > 0
            /\ ~dataFiles[SampleName].exists => memItems[p] = <<>>

\* C7 amended: on an empty store, with the sample file present blank and
\* malformed lines are skipped without raising and the values of the other
\* lines are ingested.  If one of them is not a JSON object the call raises
\* (AttributeError) and the store stays empty.  Otherwise the store ends with
\* one item per chunk of those records, so with more than 0 items exactly
\* when some record has valid text, unless the embedding call fails, which
\* propagates and leaves the store empty.  With the file absent the store
\* stays empty and nothing is raised.
C7_BootstrapIngestsWellFormed ==
    \A p \in Procs :
        BootstrapOnEmpty(p) =>
            LET present == dataFiles[SampleName].exists
                objects == AllObjects(SampleRecords)
                exp == IF objects THEN ClaimChunks(SampleRecords) ELSE <<>>
            IN  /\ ~present => outcome[p].kind = "return" /\ memItems[p] = <<>>
                /\ (present /\ ~objects) =>
                      outcome[p].kind = "AttributeError" /\ memItems[p] = <<>>
                /\ (present /\ objects) =>
                      /\ outcome[p].kind \in {"return", "APIError"}
                      /\ outcome[p].kind = "return" =>
                            /\ Len(memItems[p]) = Len(exp)
                            /\ \A i \in 1..Len(exp) : memItems[p][i].text = exp[i]
                      /\ outcome[p].kind = "APIError" =>
                            memItems[p] = <<>> /\ exp # <<>>
                      /\ exp = <<>> => outcome[p].kind = "return"

\* a bootstrap from a sample file with a malformed line in front of a record
C7_Witness ==
    \E p \in Procs :
        /\ BootstrapOnEmpty(p)
        /\ dataFiles[SampleName] = DataFile(DS_Dirty)
        /\ outcome[p].kind = "return"
        /\ Len(memItems[p]) = 2

(***************************************************************************)
(* Claims about build_prompt                                               *)
(***************************************************************************)
\* C9: the prompt starts with the system instruction and ends with the user
\* message carrying the context block and the question; between them stand,
\* in their order, the messages among the last 6 of the history that have
\* role user or assistant and string content, so never more than 6.
C9_PromptBoundsHistory ==
    promptPc = "built" =>
        LET h == promptArgs.history
            n == Len(messages)
            from == IF Len(h) > 6 THEN Len(h) - 6 ELSE 0
            tail == [i \in 1..(Len(h) - from) |-> h[from + i]]
            kept == SelectSeq(tail, LAMBDA m : m.role \in {"user", "assistant"}
                                                  /\ m.content.type = "str")
        IN  /\ n >= 2
            /\ messages[1] = Message("system", StrContent(SystemText))
            /\ messages[n].role = "user"
            /\ messages[n].content =
                   StrContent(UserText(promptArgs.query, promptArgs.contexts))
            /\ SubSeq(messages, 2, n - 1) = kept
            /\ n - 2 <= 6

\* a history of 8 or more whose last 6 lose an entry to the filter
C9_Witness ==
    /\ promptPc = "built"
    /\ Len(promptArgs.history) >= 8
    /\ Len(messages) = 7
    /\ promptArgs.contexts # <<>>

(***************************************************************************)
(* Specifications                                                          *)
(***************************************************************************)
FileIdle == indexFile = NoFile

InitSearch == InitSearchVars /\ ChunkIdle /\ StoreIdle /\ FileIdle /\ IngestIdle /\ PromptIdle
NextSearch == Search /\ UNCHANGED <<chunkVars, indexFile, storeVars, ingestVars, promptVars>>
SpecSearch == InitSearch /\ [][NextSearch]_vars

InitChunk == InitChunkVars /\ SearchIdle /\ StoreIdle /\ FileIdle /\ IngestIdle /\ PromptIdle
NextChunk == \/ ChunkLoop /\ UNCHANGED <<searchVars, indexFile, storeVars, ingestVars, promptVars>>
             \/ ChunkExit /\ UNCHANGED <<searchVars, indexFile, storeVars, ingestVars, promptVars>>
SpecChunk == InitChunk /\ [][NextChunk]_vars
\* the loop is run by one thread that keeps running
FairSpecChunk == SpecChunk /\ WF_vars(NextChunk)

InitStore == InitStoreVars /\ FileIdle /\ SearchIdle /\ ChunkIdle /\ IngestIdle /\ PromptIdle
NextStore == \/ StoreAdd /\ UNCHANGED <<searchVars, chunkVars, ingestVars, promptVars>>
             \/ StoreSave /\ UNCHANGED <<searchVars, chunkVars, ingestVars, promptVars>>
             \/ StoreLoad /\ UNCHANGED <<searchVars, chunkVars, ingestVars, promptVars>>
SpecStore == InitStore /\ [][NextStore]_vars

InitIngest ==
    /\ InitIngestVars
    /\ indexFile \in {NoFile, save(SeedItems)}
    /\ SearchIdle /\ ChunkIdle /\ StoreIdle /\ PromptIdle
NextIngest ==
    \E p \in Procs :
        \/ \E r \in Requests : IngestStart(p, r) /\ UNCHANGED <<searchVars, chunkVars, storeVars, promptVars>>
        \/ \E r \in Requests : EnsureIndexStart(p, r) /\ UNCHANGED <<searchVars, chunkVars, storeVars, promptVars>>
        \/ EmbedBatch(p) /\ UNCHANGED <<searchVars, chunkVars, storeVars, promptVars>>
        \/ EmbedFail(p) /\ UNCHANGED <<searchVars, chunkVars, storeVars, promptVars>>
        \/ Commit(p) /\ UNCHANGED <<searchVars, chunkVars, storeVars, promptVars>>
SpecIngest == InitIngest /\ [][NextIngest]_vars

InitPrompt ==
    InitPromptVars /\ FileIdle /\ SearchIdle /\ ChunkIdle /\ StoreIdle /\ IngestIdle
NextPrompt ==
    Chat /\ UNCHANGED <<searchVars, chunkVars, indexFile, storeVars, ingestVars>>
SpecPrompt == InitPrompt /\ [][NextPrompt]_vars

====
